---- MODULE Spec2Model ----
(***************************************************************************)
(* A model of game-analyze: the skeleton renderer shared by the desktop    *)
(* tool (main.py) and the Flask backend (web_app_backend.py), the backend  *)
(* endpoints that read frames of uploaded videos, and the desktop frame    *)
(* reader and interactive picker.                                          *)
(*                                                                         *)
(* Numbers.  A landmark's x, y, z and visibility are floats.  The model    *)
(* keeps each as an integer numerator over Den, a power of two, so that    *)
(* 0.5 is exact and the product of a coordinate with an integer frame      *)
(* dimension is exact, as it is in IEEE double arithmetic for a float32    *)
(* landmark.  A keypoint coordinate x * w is kept as the numerator of      *)
(* x * w over Den.                                                         *)
(***************************************************************************)
EXTENDS Integers, Sequences, FiniteSets, TLC

VARIABLES
    heap,         \* the image buffers that exist: a sequence, indexed by buffer id
    frame,        \* renderer input: the id of the caller's frame
    pose_result,  \* renderer input: what pose.process returns for that frame
    ret,          \* what the last renderer call returned, or NoCall
    vid,          \* the content of the video file the calls are tried on
    video_path,   \* whether the desktop tool's VIDEO_PATH names an existing file
    uploads,      \* UPLOAD_FOLDER: file name -> content, or NoFile
    open_handles, \* the video and pose-model handles open in the process
    call,         \* the last finished call: its arguments, outcome and effects
    picker,       \* pick_frame_interactive's locals while it runs
    last_saved    \* the file the picker's last cv2.imwrite wrote

rvars == <<heap, frame, pose_result, ret>>
svars == <<vid, video_path, uploads, open_handles, call, picker, last_saved>>
vars == <<rvars, svars>>

----------------------------------------------------------------------------
(* Bounds of the model *)

MaxDim == 3       \* frame widths and heights run over 1..MaxDim

Den == 2 * 2      \* coordinates and visibilities are numerators over Den
YShifts == {0, 1} \* how far a landmark list's y pattern is shifted against x

----------------------------------------------------------------------------
(* mediapipe's landmark enumeration, as far as the program names it *)

NumLandmarks == 33

PoseLandmark ==
    [NOSE |-> 0,
     LEFT_SHOULDER |-> 11, RIGHT_SHOULDER |-> 12,
     LEFT_ELBOW |-> 13, RIGHT_ELBOW |-> 14,
     LEFT_WRIST |-> 15, RIGHT_WRIST |-> 16,
     LEFT_HIP |-> 23, RIGHT_HIP |-> 24,
     LEFT_KNEE |-> 25, RIGHT_KNEE |-> 26,
     LEFT_ANKLE |-> 27, RIGHT_ANKLE |-> 28]

\* The Bone Set.
SIMPLE_CONNECTIONS ==
    << <<PoseLandmark.NOSE, PoseLandmark.LEFT_SHOULDER>>,
       <<PoseLandmark.NOSE, PoseLandmark.RIGHT_SHOULDER>>,
       <<PoseLandmark.LEFT_SHOULDER, PoseLandmark.RIGHT_SHOULDER>>,
       <<PoseLandmark.LEFT_SHOULDER, PoseLandmark.LEFT_HIP>>,
       <<PoseLandmark.RIGHT_SHOULDER, PoseLandmark.RIGHT_HIP>>,
       <<PoseLandmark.LEFT_HIP, PoseLandmark.RIGHT_HIP>>,
       <<PoseLandmark.LEFT_SHOULDER, PoseLandmark.LEFT_ELBOW>>,
       <<PoseLandmark.LEFT_ELBOW, PoseLandmark.LEFT_WRIST>>,
       <<PoseLandmark.RIGHT_SHOULDER, PoseLandmark.RIGHT_ELBOW>>,
       <<PoseLandmark.RIGHT_ELBOW, PoseLandmark.RIGHT_WRIST>>,
       <<PoseLandmark.LEFT_HIP, PoseLandmark.LEFT_KNEE>>,
       <<PoseLandmark.LEFT_KNEE, PoseLandmark.LEFT_ANKLE>>,
       <<PoseLandmark.RIGHT_HIP, PoseLandmark.RIGHT_KNEE>>,
       <<PoseLandmark.RIGHT_KNEE, PoseLandmark.RIGHT_ANKLE>> >>

\* The Joint Set.
KEY_LANDMARKS ==
    << PoseLandmark.NOSE,
       PoseLandmark.LEFT_SHOULDER, PoseLandmark.RIGHT_SHOULDER,
       PoseLandmark.LEFT_ELBOW, PoseLandmark.RIGHT_ELBOW,
       PoseLandmark.LEFT_WRIST, PoseLandmark.RIGHT_WRIST,
       PoseLandmark.LEFT_HIP, PoseLandmark.RIGHT_HIP,
       PoseLandmark.LEFT_KNEE, PoseLandmark.RIGHT_KNEE,
       PoseLandmark.LEFT_ANKLE, PoseLandmark.RIGHT_ANKLE >>

----------------------------------------------------------------------------
(* Values *)

\* What pose.process returns: result.pose_landmarks is None, or holds the
\* landmark list, indexed from 0.
NoLandmarks == [found |-> FALSE, landmark |-> <<>>]
Landmarks(lms) == [found |-> TRUE, landmark |-> lms]

\* What a renderer call returns.  "has" names the values the function
\* returns; a value it does not return is left 0 or empty.
NoCall ==
    [fn |-> "none", has |-> {}, annotated |-> 0, keypoints |-> <<>>,
     pose_found |-> FALSE]

PyFloor(n) == n \div Den

\* Python's int() of the float n / Den: truncation toward zero.
PyInt(n) == IF n >= 0 THEN n \div Den ELSE -((-n) \div Den)

\* Python's round() of n / Den: to the nearest integer, a tie to the even one.
PyRound(n) ==
    LET fl == n \div Den
        rem == n % Den
    IN  IF 2 * rem > Den THEN fl + 1
        ELSE IF 2 * rem < Den THEN fl
        ELSE IF fl % 2 = 0 THEN fl ELSE fl + 1

VisibleAtHalf(lm) == 2 * lm.visibility >= Den

\* lm.visibility > 0.5
Visible(lm) == 2 * lm.visibility > Den

FrameAlias(hp, id) == [heap |-> hp, id |-> id]

\* frame.copy(): a new buffer holding the same pixels.
FrameCopy(hp, id) == [heap |-> Append(hp, hp[id]), id |-> Len(hp) + 1]

\* cv2.line and cv2.circle write into the buffer they are given.  A buffer's
\* pixels are its base image and the drawing calls applied to it, in order;
\* tag is the index of the bone or joint in its table.
cv2_line(hp, id, tag, start, end) ==
    [hp EXCEPT ![id].ops =
        Append(@, [kind |-> "line", tag |-> tag, start |-> start, end |-> end])]

cv2_circle(hp, id, tag, center) ==
    [hp EXCEPT ![id].ops =
        Append(@, [kind |-> "circle", tag |-> tag, center |-> center])]

\* (int(p.x * w), int(p.y * h))
PixelPoint(p, w, h) == <<PyInt(p.x * w), PyInt(p.y * h)>>

\* for connection in SIMPLE_CONNECTIONS: ..., from the k-th connection on
RECURSIVE DrawConnections(_, _, _, _, _, _)
DrawConnections(hp, id, lms, w, h, k) ==
    IF k > Len(SIMPLE_CONNECTIONS) THEN hp
    ELSE LET start_point == lms[SIMPLE_CONNECTIONS[k][1]]
             end_point == lms[SIMPLE_CONNECTIONS[k][2]]
             hp1 == IF Visible(start_point) /\ Visible(end_point)
                    THEN cv2_line(hp, id, k, PixelPoint(start_point, w, h),
                                  PixelPoint(end_point, w, h))
                    ELSE hp
         IN  DrawConnections(hp1, id, lms, w, h, k + 1)

\* for landmark_idx in KEY_LANDMARKS: ..., from the k-th landmark on
RECURSIVE DrawLandmarks(_, _, _, _, _, _)
DrawLandmarks(hp, id, lms, w, h, k) ==
    IF k > Len(KEY_LANDMARKS) THEN hp
    ELSE LET lm == lms[KEY_LANDMARKS[k]]
             hp1 == IF Visible(lm)
                    THEN cv2_circle(hp, id, k, PixelPoint(lm, w, h))
                    ELSE hp
         IN  DrawLandmarks(hp1, id, lms, w, h, k + 1)

KeypointsOfVisible(lms, w, h) ==
    LET vis == SelectSeq([i \in 1..NumLandmarks |-> lms[i - 1]], Visible)
    IN  [i \in 1..Len(vis) |->
            [x |-> vis[i].x * w, y |-> vis[i].y * h, z |-> vis[i].z * w,
             visibility |-> vis[i].visibility]]

\* The backend's keypoint list: for lm in result.pose_landmarks.landmark,
\* a dict of x, y, z in pixels and the visibility.
ExtractKeypoints(lms, w, h) ==
    [i \in 1..NumLandmarks |->
        [x |-> lms[i - 1].x * w,
         y |-> lms[i - 1].y * h,
         z |-> lms[i - 1].z * w,
         visibility |-> lms[i - 1].visibility]]

\* main()'s keypoint array: a row (x, y, visibility) per landmark.
MainKeypoints(lms, w, h) ==
    [i \in 1..NumLandmarks |->
        [x |-> lms[i - 1].x * w,
         y |-> lms[i - 1].y * h,
         visibility |-> lms[i - 1].visibility]]

analyze_frame_always_found(hp, fr, result) ==
    LET c == FrameCopy(hp, fr)
        lms == IF result.found THEN result.landmark
               ELSE [i \in 0..(NumLandmarks - 1) |->
                        [x |-> 0, y |-> 0, z |-> 0, visibility |-> 0]]
        hp1 == DrawConnections(c.heap, c.id, lms, hp[fr].w, hp[fr].h, 1)
        hp2 == DrawLandmarks(hp1, c.id, lms, hp[fr].w, hp[fr].h, 1)
    IN  [heap |-> hp2, has |-> {"annotated", "keypoints", "pose_found"},
         annotated |-> c.id,
         keypoints |-> ExtractKeypoints(lms, hp[fr].w, hp[fr].h),
         pose_found |-> TRUE]

\* web_app_backend.analyze_frame(frame, pose)
analyze_frame(hp, fr, result) ==
    LET c == FrameCopy(hp, fr)
        h == hp[fr].h
        w == hp[fr].w
    IN  IF result.found
        THEN LET hp1 == DrawConnections(c.heap, c.id, result.landmark, w, h, 1)
                 hp2 == DrawLandmarks(hp1, c.id, result.landmark, w, h, 1)
                 keypoints == ExtractKeypoints(result.landmark, w, h)
             IN  [heap |-> hp2, has |-> {"annotated", "keypoints", "pose_found"},
                  annotated |-> c.id, keypoints |-> keypoints,
                  pose_found |-> TRUE]
        ELSE [heap |-> c.heap, has |-> {"annotated", "keypoints", "pose_found"},
              annotated |-> c.id, keypoints |-> <<>>, pose_found |-> FALSE]

\* main.analyze_and_annotate_frame(frame, pose): no keypoint list is returned
analyze_and_annotate_frame(hp, fr, result) ==
    LET c == FrameCopy(hp, fr)
        h == hp[fr].h
        w == hp[fr].w
    IN  IF result.found
        THEN LET hp1 == DrawConnections(c.heap, c.id, result.landmark, w, h, 1)
                 hp2 == DrawLandmarks(hp1, c.id, result.landmark, w, h, 1)
             IN  [heap |-> hp2, has |-> {"annotated", "pose_found"},
                  annotated |-> c.id, keypoints |-> <<>>, pose_found |-> TRUE]
        ELSE [heap |-> c.heap, has |-> {"annotated", "pose_found"},
              annotated |-> c.id, keypoints |-> <<>>, pose_found |-> FALSE]

\* main.main(), from the pose result on: it draws and builds the keypoint
\* array itself, and returns before either when no athlete is detected
main_render(hp, fr, result) ==
    IF ~result.found
    THEN [heap |-> hp, has |-> {}, annotated |-> 0, keypoints |-> <<>>,
          pose_found |-> FALSE]
    ELSE LET c == FrameCopy(hp, fr)
             h == hp[fr].h
             w == hp[fr].w
             hp1 == DrawConnections(c.heap, c.id, result.landmark, w, h, 1)
             hp2 == DrawLandmarks(hp1, c.id, result.landmark, w, h, 1)
             keypoints == MainKeypoints(result.landmark, w, h)
         IN  [heap |-> hp2, has |-> {"annotated", "keypoints"},
              annotated |-> c.id, keypoints |-> keypoints, pose_found |-> TRUE]

----------------------------------------------------------------------------
(* The renderer's inputs *)

\* A decoded frame of width w and height h, nothing drawn on it; base is the
\* index of the frame it was decoded from.
DecodedFrame(w, h) == [w |-> w, h |-> h, base |-> 0, ops |-> <<>>]

\* Coordinates run from -1/Den to (Den+1)/Den: the pose model may place a
\* landmark just outside the frame.
CoordSpan == Den + 3

\* A landmark list: the two ends of bone k have visibilities v1 and v2, every
\* other landmark has v0; landmark i lies at a position that depends on i,
\* its y pattern shifted by s against its x pattern.
LandmarkList(k, v1, v2, v0, s) ==
    [i \in 0..(NumLandmarks - 1) |->
        [x |-> (i % CoordSpan) - 1,
         y |-> ((i + s) % CoordSpan) - 1,
         z |-> -(i % 3),
         visibility |-> IF i = SIMPLE_CONNECTIONS[k][1] THEN v1
                        ELSE IF i = SIMPLE_CONNECTIONS[k][2] THEN v2
                        ELSE v0]]

LandmarkLists ==
    { Landmarks(LandmarkList(k, v1, v2, v0, s)) :
        k \in 1..Len(SIMPLE_CONNECTIONS), v1 \in 0..Den, v2 \in 0..Den,
        v0 \in {0, Den \div 2, Den}, s \in YShifts }

----------------------------------------------------------------------------
(* Video files and the external video and pose-model libraries *)

MaxFrames == 2    \* a short video holds 0..MaxFrames frames
MaxLeaks == 1     \* calls start while fewer handles of each kind are left open
MaxShortBatch == 2 \* batches of up to MaxShortBatch indices are all tried

JUMP == 10        \* the picker's [-] and [=] keys move by 10 frames
LongVideo == JUMP + 2
FrameCounts == 0..MaxFrames \cup {LongVideo}

\* A path that names no file.
NoFile ==
    [exists |-> FALSE, openable |-> FALSE, frames |-> 0, fps |-> 0,
     poses |-> "none"]

\* A file that is no video: cv2.VideoCapture does not open it.
Garbage ==
    [exists |-> TRUE, openable |-> FALSE, frames |-> 0, fps |-> 0,
     poses |-> "none"]

\* The video files: a frame count, the frame rate the container reports
\* (0 when it reports none), and the frames on which the pose model finds a
\* person.
Videos ==
    { [exists |-> TRUE, openable |-> TRUE, frames |-> n, fps |-> f, poses |-> p] :
        n \in FrameCounts \ {0}, f \in {0, 30}, p \in {"all", "none", "even"} }
    \cup { [exists |-> TRUE, openable |-> TRUE, frames |-> 0, fps |-> f,
            poses |-> "none"] : f \in {0, 30} }
    \cup { Garbage }

\* The frame indices requests ask for: every frame of a short video, and the
\* two indices after its end.
FrameIndices == 0..(MaxFrames + 1)

NoHandles == [video |-> 0, pose |-> 0]

\* What a call has done so far: the handles open in the process, and how many
\* VideoCapture and Pose objects it made, frames it read, inferences it ran.
Ctx(open) == [open |-> open, caps |-> 0, poses |-> 0, reads |-> 0, infers |-> 0]

\* cv2.VideoCapture(path): the handle is open if the file is a video.
cv2_VideoCapture(ctx, file) ==
    [ctx |-> [ctx EXCEPT !.caps = @ + 1,
                         !.open.video = @ + (IF file.openable THEN 1 ELSE 0)],
     cap |-> [opened |-> file.openable, file |-> file, pos |-> 0]]

\* cap.set(cv2.CAP_PROP_POS_FRAMES, frame_index)
cap_set_pos(cap, frame_index) == [cap EXCEPT !.pos = frame_index]

\* Whether cap.read() yields a frame at the handle's position.
CanRead(cap) == cap.opened /\ cap.pos >= 0 /\ cap.pos < cap.file.frames

\* ret, frame = cap.read(): the frame at the position, if there is one.
cap_read(ctx, cap) ==
    IF CanRead(cap)
    THEN [ctx |-> [ctx EXCEPT !.reads = @ + 1], ret |-> TRUE,
          frame |-> [DecodedFrame(MaxDim, MaxDim) EXCEPT !.base = cap.pos]]
    ELSE [ctx |-> ctx, ret |-> FALSE, frame |-> DecodedFrame(MaxDim, MaxDim)]

\* cap.release()
cap_release(ctx, cap) ==
    [ctx EXCEPT !.open.video = @ - (IF cap.opened THEN 1 ELSE 0)]

\* cap.get(cv2.CAP_PROP_FRAME_COUNT), cap.get(cv2.CAP_PROP_FPS),
\* cap.get(cv2.CAP_PROP_FRAME_WIDTH): 0 from a handle that is not open.
cap_get(cap, prop) ==
    IF ~cap.opened THEN 0
    ELSE CASE prop = "FRAME_COUNT" -> cap.file.frames
           [] prop = "FPS" -> cap.file.fps
           [] OTHER -> MaxDim

\* mp_pose.Pose(static_image_mode=True, model_complexity=2)
mp_Pose(ctx) == [ctx EXCEPT !.poses = @ + 1, !.open.pose = @ + 1]

\* pose.close()
pose_close(ctx) == [ctx EXCEPT !.open.pose = @ - 1]

\* pose.process(image) on frame i of a file.
pose_process(file, i) ==
    IF \/ file.poses = "all"
       \/ file.poses = "even" /\ i % 2 = 0
    THEN Landmarks(LandmarkList(1 + (i % 2), Den, Den \div 2, Den, i % 2))
    ELSE NoLandmarks

\* cv2.imencode('.jpg', image) and base64.b64encode, as a data URL.
JpegDataUrl(image) == [mime |-> "data:image/jpeg;base64", jpeg |-> image]

----------------------------------------------------------------------------
(* The backend, web_app_backend.py *)

MAX_BATCH == 50

ALLOWED_EXTENSIONS == {"mp4", "avi", "mov", "mkv"}

\* A file name as its directory part, its stem and its extension ("" when
\* the name has no dot; NoName is the empty name).
FileName(dir, stem, ext) == [dir |-> dir, stem |-> stem, ext |-> ext]
NoName == FileName("", "", "")
ClipMp4 == FileName("", "clip", "mp4")
OtherMp4 == FileName("", "other", "mp4")

\* The names a file is uploaded under, and the names requests ask for.
UploadNames ==
    { NoName, ClipMp4, FileName("../", "clip", "mp4"),
      FileName("", "notes", "txt"), FileName("", "clip", "") }
StoredNames == { ClipMp4, OtherMp4 }

\* str.lower() of an extension
Lower(ext) == IF ext = "MP4" THEN "mp4" ELSE ext

\* allowed_file(filename)
allowed_file(filename) ==
    filename.ext # "" /\ Lower(filename.ext) \in ALLOWED_EXTENSIONS

\* werkzeug's secure_filename: the directory part is dropped.
secure_filename(filename) == [filename EXCEPT !.dir = ""]

\* os.path.exists(os.path.join(UPLOAD_FOLDER, name))
path_exists(ups, name) == name \in DOMAIN ups /\ ups[name].exists

FileAt(ups, name) == IF name \in DOMAIN ups THEN ups[name] ELSE NoFile

\* jsonify(body), status
Response(ctx, ups, status, body) ==
    [ctx |-> ctx, uploads |-> ups, status |-> status, body |-> body]

ErrorBody(msg) == [error |-> msg]

\* analyze_frame(frame, pose) as the endpoints call it, and what they keep
\* of its result
Analyzed(ctx, r) ==
    [ctx |-> [ctx EXCEPT !.infers = @ + 1],
     annotated_frame |-> r.heap[r.annotated],
     keypoints |-> r.keypoints,
     has_pose |-> r.pose_found]

RunAnalyzeFrame(ctx, file, fr) ==
    Analyzed(ctx, analyze_frame(<<fr>>, 1, pose_process(file, fr.base)))

\* upload_video(): POST /api/upload.  req.has_video: the form has a 'video'
\* part; req.filename: its file name; req.content: its bytes.
upload_video(ctx, ups, req) ==
    IF ~req.has_video THEN Response(ctx, ups, "400", ErrorBody("No video file"))
    ELSE IF req.filename = NoName
    THEN Response(ctx, ups, "400", ErrorBody("No file selected"))
    ELSE IF ~allowed_file(req.filename)
    THEN Response(ctx, ups, "400", ErrorBody("Invalid file type"))
    ELSE LET filename == secure_filename(req.filename)
             ups1 == [ups EXCEPT ![filename] = req.content]
             c == cv2_VideoCapture(ctx, ups1[filename])
             total_frames == cap_get(c.cap, "FRAME_COUNT")
             fps == cap_get(c.cap, "FPS")
             width == cap_get(c.cap, "FRAME_WIDTH")
             height == cap_get(c.cap, "FRAME_HEIGHT")
             duration == IF fps > 0 THEN <<total_frames, fps>> ELSE <<0, 1>>
         IN  Response(cap_release(c.ctx, c.cap), ups1, "200",
                      [filename |-> filename, total_frames |-> total_frames,
                       fps |-> fps, width |-> width, height |-> height,
                       duration |-> duration])

FrameAlwaysFound(ret_) == FALSE

\* if not ret: (get_frame, analyze_frame_endpoint)
FrameNotFound(ret_) == ~ret_

\* get_frame(filename, frame_index): GET /api/video/<filename>/frame/<i>
get_frame(ctx, ups, filename, frame_index) ==
    IF ~path_exists(ups, secure_filename(filename))
    THEN Response(ctx, ups, "404", ErrorBody("Video not found"))
    ELSE LET c == cv2_VideoCapture(ctx, ups[secure_filename(filename)])
             r == cap_read(c.ctx, cap_set_pos(c.cap, frame_index))
             ctx1 == cap_release(r.ctx, c.cap)
         IN  IF FrameNotFound(r.ret)
             THEN Response(ctx1, ups, "404", ErrorBody("Frame not found"))
             ELSE Response(ctx1, ups, "200",
                           [frame_index |-> frame_index,
                            image |-> JpegDataUrl(r.frame)])

\* data.get('frame_index', 0)
IndexOrDefault(data) == IF data.has_index THEN data.frame_index ELSE 0

\* The analyze endpoint's answer for an analyzed frame, the pose model closed.
AnalyzeResponse(ups, frame_index, a) ==
    Response(pose_close(a.ctx), ups, "200",
             [frame_index |-> frame_index, has_pose |-> a.has_pose,
              keypoints |-> a.keypoints,
              annotated_image |-> JpegDataUrl(a.annotated_frame)])

\* analyze_frame_endpoint(filename): POST /api/video/<filename>/analyze
analyze_frame_endpoint(ctx, ups, filename, data) ==
    LET frame_index == IndexOrDefault(data)
    IN  IF ~path_exists(ups, secure_filename(filename))
        THEN Response(ctx, ups, "404", ErrorBody("Video not found"))
        ELSE LET file == ups[secure_filename(filename)]
                 c == cv2_VideoCapture(ctx, file)
                 r == cap_read(c.ctx, cap_set_pos(c.cap, frame_index))
                 ctx1 == cap_release(r.ctx, c.cap)
             IN  IF FrameNotFound(r.ret)
                 THEN Response(ctx1, ups, "404", ErrorBody("Frame not found"))
                 ELSE AnalyzeResponse(ups, frame_index,
                          RunAnalyzeFrame(mp_Pose(ctx1), file, r.frame))

BatchTooLargeAtLimit(frame_indices) == Len(frame_indices) >= MAX_BATCH

\* len(frame_indices) > 50
BatchTooLarge(frame_indices) == Len(frame_indices) > MAX_BATCH

\* results.append({...}) for an analyzed frame
BatchEntry(frame_index, a) ==
    [ret |-> TRUE,
     entry |-> [frame_index |-> frame_index, has_pose |-> a.has_pose,
                keypoints |-> a.keypoints,
                annotated_image |-> JpegDataUrl(a.annotated_frame)]]

\* The batch loop's body after cap.read(): if a frame was read, analyze it and
\* make its result entry.
BatchRead(cap, frame_index, r) ==
    IF r.ret
    THEN BatchEntry(frame_index, RunAnalyzeFrame(r.ctx, cap.file, r.frame))
    ELSE [ret |-> FALSE,
          entry |-> [frame_index |-> frame_index, has_pose |-> FALSE,
                     keypoints |-> <<>>,
                     annotated_image |-> JpegDataUrl(r.frame)]]

\* The body of the batch loop for one frame_index: seek and read.
BatchStep(cap, frame_index) ==
    BatchRead(cap, frame_index,
              cap_read(Ctx(NoHandles), cap_set_pos(cap, frame_index)))

WasRead(step) == step.ret

\* The steps of a batch loop that stops at the first frame it cannot read.
StepsUntilUnreadable(steps) ==
    LET bad == { k \in 1..Len(steps) : ~steps[k].ret }
    IN  IF bad = {} THEN steps
        ELSE SubSeq(steps, 1, (CHOOSE k \in bad : \A j \in bad : k <= j) - 1)

\* The steps of the loop that append to results: those whose read succeeded
\* (if ret:); the loop goes on after one that did not.
AppendingSteps(steps) == SelectSeq(steps, WasRead)

\* for frame_index in frame_indices: ...  Each iteration seeks to its own
\* index, so the iterations do not depend on each other: results holds the
\* entries of the iterations that read a frame, in order.
Appended(ctx, done) ==
    [ctx |-> [ctx EXCEPT !.reads = @ + Len(done), !.infers = @ + Len(done)],
     results |-> [k \in 1..Len(done) |-> done[k].entry]]

BatchLoop(ctx, cap, frame_indices) ==
    Appended(ctx,
             AppendingSteps([k \in 1..Len(frame_indices) |->
                                BatchStep(cap, frame_indices[k])]))

\* The batch endpoint's answer: both handles released, the results returned.
BatchResponse(ups, cap, l) ==
    Response(pose_close(cap_release(l.ctx, cap)), ups, "200",
             [results |-> l.results])

\* The batch endpoint once the video handle c was made: make the pose model,
\* run the loop.
BatchOn(ups, frame_indices, c) ==
    BatchResponse(ups, c.cap, BatchLoop(mp_Pose(c.ctx), c.cap, frame_indices))

\* analyze_batch_frames(filename): POST /api/video/<filename>/analyze-batch
analyze_batch_frames(ctx, ups, filename, frame_indices) ==
    IF ~path_exists(ups, secure_filename(filename))
    THEN Response(ctx, ups, "404", ErrorBody("Video not found"))
    ELSE IF BatchTooLarge(frame_indices)
    THEN Response(ctx, ups, "400", ErrorBody("Too many frames (max 50)"))
    ELSE BatchOn(ups, frame_indices,
                 cv2_VideoCapture(ctx, ups[secure_filename(filename)]))

----------------------------------------------------------------------------
(* The desktop tool, main.py *)

\* What a desktop function hands back: a return value, or a raised exception.
Outcome(ctx, status, body) == [ctx |-> ctx, status |-> status, body |-> body]

\* if not ok: (read_frame)
CouldNotGrab(ok) == ~ok

\* read_frame(path, frame_idx)
read_frame(ctx, file, frame_idx) ==
    LET c == cv2_VideoCapture(ctx, file)
    IN  IF ~c.cap.opened
        THEN Outcome(c.ctx, "raised", [error |-> "Cannot open video"])
        ELSE LET r == cap_read(c.ctx, cap_set_pos(c.cap, frame_idx))
                 ctx1 == cap_release(r.ctx, c.cap)
             IN  IF CouldNotGrab(r.ret)
                 THEN Outcome(ctx1, "raised", [error |-> "Could not grab frame"])
                 ELSE Outcome(ctx1, "returned", [frame |-> r.frame])

\* f"frame_{current_frame:05d}.jpg": the decimal digits, zero-padded to five.
RECURSIVE Digits(_)
Digits(n) == IF n < 10 THEN <<n>> ELSE Append(Digits(n \div 10), n % 10)

NoPad(ds) == ds

ZeroPad5(ds) == [i \in 1..(5 - Len(ds)) |-> 0] \o ds

FrameFilename(current_frame) ==
    [prefix |-> "frame_", digits |-> ZeroPad5(Digits(current_frame)),
     suffix |-> ".jpg"]

NoSavedFile == [prefix |-> "", digits |-> <<>>, suffix |-> ""]

\* The keys cv2.waitKey can report; "x" stands for any key without a binding,
\* "timeout" for no key within the 30 ms a playing picker waits.
QuitKeys == {"q", "ESC"}
PlayKeys == {" ", "Enter"}
PrevKeys == {"[", ","}
NextKeys == {"]", "."}
BackKeys == {"-", "_"}
ForwardKeys == {"=", "+"}
Keys ==
    QuitKeys \cup PlayKeys \cup PrevKeys \cup NextKeys \cup BackKeys
        \cup ForwardKeys \cup {"a", "t", "g", "x"}

\* What the user types at the "Enter frame number" prompt: a number, or text
\* int() rejects.
Typed ==
    { [number |-> TRUE, value |-> v] : v \in -1..(LongVideo + 1) }
    \cup { [number |-> FALSE, value |-> 0] }

Max(a, b) == IF a >= b THEN a ELSE b
Min(a, b) == IF a <= b THEN a ELSE b

\* No call has finished yet.
NoCallYet ==
    [op |-> "none", args |-> [path |-> ""], status |-> "none",
     body |-> [error |-> ""],
     fx |-> [caps |-> 0, poses |-> 0, reads |-> 0, infers |-> 0]]

\* The picker's locals; pc is "idle" while no picker runs.
IdlePicker ==
    [pc |-> "idle", cap |-> [opened |-> FALSE, file |-> NoFile, pos |-> 0],
     total_frames |-> 0, fps |-> 0, current_frame |-> 0, playing |-> FALSE,
     show_overlay |-> FALSE]

\* pick_frame_interactive, up to the loop: open the video, read its
\* properties, create the pose model.
PickerOpen(ctx, file, saved) ==
    LET c == cv2_VideoCapture(ctx, file)
    IN  IF ~c.cap.opened
        THEN [ctx |-> c.ctx, status |-> "raised",
              body |-> [error |-> "Cannot open video"], picker |-> IdlePicker,
              saved |-> saved]
        ELSE [ctx |-> mp_Pose(c.ctx), status |-> "running", body |-> [error |-> ""],
              saved |-> saved,
              picker |-> [pc |-> "loop", cap |-> c.cap,
                          total_frames |-> cap_get(c.cap, "FRAME_COUNT"),
                          fps |-> cap_get(c.cap, "FPS"),
                          current_frame |-> 0, playing |-> FALSE,
                          show_overlay |-> FALSE]]

\* The key handling of one loop iteration, after the frame was shown: the
\* picker's locals after it, whether the loop ends, and the file written.
HandleKey(pk, key, typed, has_pose, saved) ==
    LET cf == pk.current_frame
        tf == pk.total_frames
    IN  IF key \in QuitKeys THEN [pk |-> pk, quit |-> TRUE, saved |-> saved]
        ELSE IF key \in PlayKeys
        THEN [pk |-> [pk EXCEPT !.playing = ~pk.playing], quit |-> FALSE,
              saved |-> saved]
        ELSE IF key = "a"
        THEN IF has_pose
             THEN [pk |-> [pk EXCEPT !.show_overlay = TRUE], quit |-> FALSE,
                   saved |-> FrameFilename(cf)]
             ELSE [pk |-> pk, quit |-> FALSE, saved |-> saved]
        ELSE IF key = "t"
        THEN [pk |-> [pk EXCEPT !.show_overlay = ~pk.show_overlay],
              quit |-> FALSE, saved |-> saved]
        ELSE IF key \in PrevKeys
        THEN [pk |-> [pk EXCEPT !.current_frame = Max(0, cf - 1),
                                !.playing = FALSE],
              quit |-> FALSE, saved |-> saved]
        ELSE IF key \in NextKeys
        THEN [pk |-> [pk EXCEPT !.current_frame = Min(tf - 1, cf + 1),
                                !.playing = FALSE],
              quit |-> FALSE, saved |-> saved]
        ELSE IF key \in BackKeys
        THEN [pk |-> [pk EXCEPT !.current_frame = Max(0, cf - JUMP),
                                !.playing = FALSE],
              quit |-> FALSE, saved |-> saved]
        ELSE IF key \in ForwardKeys
        THEN [pk |-> [pk EXCEPT !.current_frame = Min(tf - 1, cf + JUMP),
                                !.playing = FALSE],
              quit |-> FALSE, saved |-> saved]
        ELSE IF key = "g"
        THEN IF typed.number /\ 0 <= typed.value /\ typed.value < tf
             THEN [pk |-> [pk EXCEPT !.current_frame = typed.value,
                                     !.playing = FALSE],
                   quit |-> FALSE, saved |-> saved]
             ELSE [pk |-> pk, quit |-> FALSE, saved |-> saved]
        ELSE [pk |-> pk, quit |-> FALSE, saved |-> saved]

\* An auto-advance that does not go back to 0.
AdvanceWithoutWrap(pk) ==
    IF pk.playing THEN [pk EXCEPT !.current_frame = @ + 1] ELSE pk

\* if playing: current_frame += 1, back to 0 past the last frame
AutoAdvance(pk) ==
    IF pk.playing
    THEN [pk EXCEPT !.current_frame =
             IF pk.current_frame + 1 >= pk.total_frames THEN 0
             ELSE pk.current_frame + 1]
    ELSE pk

\* The end of pick_frame_interactive: release both handles, return the frame.
PickerReturn(ctx, pk, saved) ==
    [ctx |-> pose_close(cap_release(ctx, pk.cap)), status |-> "returned",
     body |-> [frame |-> pk.current_frame], picker |-> IdlePicker,
     saved |-> saved]

\* The rest of an iteration once the key was handled: the function's end on
\* quit, else the auto-advance.
AfterKey(ctx, k) ==
    IF k.quit THEN PickerReturn(ctx, k.pk, k.saved)
    ELSE [ctx |-> ctx, status |-> "running", body |-> [error |-> ""],
          picker |-> AutoAdvance(k.pk), saved |-> k.saved]

\* One iteration of the picker's while loop under key press `key`, through
\* to the function's end when the loop ends in it.
PickerLoop(ctx, pk, key, typed, saved) ==
    LET r == cap_read(ctx, cap_set_pos(pk.cap, pk.current_frame))
        pose == pose_process(pk.cap.file, pk.current_frame)
    IN  IF ~r.ret THEN PickerReturn(r.ctx, pk, saved)
        ELSE IF pk.fps = 0
        THEN \* f"Time: {current_frame/fps:.2f}s" divides by zero
             [ctx |-> r.ctx, status |-> "raised",
              body |-> [error |-> "ZeroDivisionError"], picker |-> IdlePicker,
              saved |-> saved]
        ELSE AfterKey(r.ctx,
                      HandleKey(pk, key, typed,
                                analyze_and_annotate_frame(<<r.frame>>, 1, pose)
                                    .pose_found,
                                saved))

\* The backend and the desktop tool before any call, on an empty upload folder.
SystemAtRest ==
    /\ vid = Garbage
    /\ video_path = FALSE
    /\ uploads = [n \in StoredNames |-> NoFile]
    /\ open_handles = NoHandles
    /\ call = NoCallYet
    /\ picker = IdlePicker
    /\ last_saved = NoSavedFile

\* main() once the pose model has run: nothing more when no athlete was
\* detected, else the drawing and the keypoint array.
MainResult(ctx, result, r) ==
    IF ~result.found
    THEN Outcome(ctx, "returned", [detected |-> FALSE])
    ELSE Outcome(ctx, "returned",
                 [detected |-> TRUE, keypoints |-> r.keypoints,
                  annotated |-> r.heap[r.annotated]])

\* main() once read_frame has returned or raised: the pose model runs inside
\* its with-block, which closes it.
MainOnFrame(file, f) ==
    IF f.status = "raised" THEN f
    ELSE MainResult(pose_close([mp_Pose(f.ctx) EXCEPT !.infers = @ + 1]),
                    pose_process(file, f.body.frame.base),
                    main_render(<<f.body.frame>>, 1,
                                pose_process(file, f.body.frame.base)))

\* main(), after the picker returned frame_index: read the frame, run the
\* pose model, draw, build the keypoint array.
main_after_pick(ctx, file, frame_index) ==
    MainOnFrame(file, read_frame(ctx, file, frame_index))

----------------------------------------------------------------------------
(* The renderer alone: SpecRender *)

RenderInit ==
    /\ \E w \in 1..MaxDim, h \in 1..MaxDim : heap = <<DecodedFrame(w, h)>>
    /\ frame = 1
    /\ pose_result \in LandmarkLists \cup {NoLandmarks}
    /\ ret = NoCall
    /\ SystemAtRest

\* One call of a renderer on the caller's frame.
Returned(fn, r) ==
    /\ heap' = r.heap
    /\ ret' = [fn |-> fn, has |-> r.has, annotated |-> r.annotated,
               keypoints |-> r.keypoints, pose_found |-> r.pose_found]
    /\ UNCHANGED <<frame, pose_result, svars>>

CallAnalyzeFrame ==
    /\ ret = NoCall
    /\ Returned("analyze_frame", analyze_frame(heap, frame, pose_result))

CallAnalyzeAndAnnotateFrame ==
    /\ ret = NoCall
    /\ Returned("analyze_and_annotate_frame",
                analyze_and_annotate_frame(heap, frame, pose_result))

CallMainRender ==
    /\ ret = NoCall
    /\ Returned("main", main_render(heap, frame, pose_result))

RenderNext ==
    \/ CallAnalyzeFrame
    \/ CallAnalyzeAndAnnotateFrame
    \/ CallMainRender

SpecRender == RenderInit /\ [][RenderNext]_vars

----------------------------------------------------------------------------
(* The backend's endpoints and the desktop tool's functions: Spec *)

\* The batches requested: every list of up to MaxShortBatch indices, and
\* lists of MAX_BATCH and MAX_BATCH + 1 indices that stay on one index or
\* cycle through all of them.
ShortBatches == UNION { [1..n -> FrameIndices] : n \in 0..MaxShortBatch }
LongBatches ==
    { [j \in 1..len |-> (a + step * (j - 1)) % (MaxFrames + 2)] :
        len \in {MAX_BATCH, MAX_BATCH + 1}, a \in {0, MaxFrames + 1},
        step \in {0, 1} }

\* The file VIDEO_PATH names.
DesktopFile == IF video_path THEN vid ELSE NoFile

Init ==
    /\ heap = <<DecodedFrame(MaxDim, MaxDim)>>
    /\ frame = 1
    /\ pose_result = NoLandmarks
    /\ ret = NoCall
    /\ vid \in Videos
    /\ video_path \in BOOLEAN
    /\ uploads = [n \in StoredNames |-> NoFile]
    /\ open_handles = NoHandles
    /\ call = NoCallYet
    /\ picker = IdlePicker
    /\ last_saved = NoSavedFile

\* The server and the desktop script are two single-threaded processes; the
\* model lets one call run at a time.  A finished request leaves nothing
\* behind but the upload folder, so a request is started from the states that
\* differ in it: at the start, and after an upload that saved a file.
ServerIdle ==
    /\ picker.pc = "idle"
    /\ \/ call.op = "none"
       \/ call.op = "upload_video" /\ call.status = "200"

\* A desktop call leaves nothing behind but the handles it left open (and the
\* file the picker saved), so one is started at the start and after a call
\* that left a handle open, while fewer than MaxLeaks of each kind are open.
DesktopIdle ==
    /\ picker.pc = "idle"
    /\ open_handles.video < MaxLeaks
    /\ open_handles.pose < MaxLeaks
    /\ \/ call.op = "none"
       \/ open_handles # NoHandles

\* A call ends: its outcome and what it did are recorded.
Finished(op, args, out) ==
    /\ call' = [op |-> op, args |-> args, status |-> out.status,
                body |-> out.body,
                fx |-> [caps |-> out.ctx.caps, poses |-> out.ctx.poses,
                        reads |-> out.ctx.reads, infers |-> out.ctx.infers]]
    /\ open_handles' = out.ctx.open

Saved(req, out) ==
    /\ Finished("upload_video", req, out)
    /\ uploads' = out.uploads

Uploaded(req) == Saved(req, upload_video(Ctx(open_handles), uploads, req))

UploadVideo ==
    /\ ServerIdle
    /\ \E has_video \in BOOLEAN, filename \in UploadNames :
          Uploaded([has_video |-> has_video, filename |-> filename,
                    content |-> vid])
    /\ UNCHANGED <<rvars, vid, video_path, picker, last_saved>>

GetFrame ==
    /\ ServerIdle
    /\ \E filename \in StoredNames, frame_index \in FrameIndices :
          Finished("get_frame",
                   [filename |-> filename, frame_index |-> frame_index],
                   get_frame(Ctx(open_handles), uploads, filename, frame_index))
    /\ UNCHANGED <<rvars, vid, video_path, uploads, picker, last_saved>>

AnalyzeFrameEndpoint ==
    /\ ServerIdle
    /\ \E filename \in StoredNames, has_index \in BOOLEAN,
          frame_index \in FrameIndices :
          LET data == [has_index |-> has_index,
                       frame_index |-> IF has_index THEN frame_index ELSE 0]
          IN  Finished("analyze_frame_endpoint",
                       [filename |-> filename, data |-> data],
                       analyze_frame_endpoint(Ctx(open_handles), uploads,
                                              filename, data))
    /\ UNCHANGED <<rvars, vid, video_path, uploads, picker, last_saved>>

AnalyzeBatchFrames ==
    /\ ServerIdle
    /\ \E filename \in StoredNames,
          frame_indices \in ShortBatches \cup LongBatches :
          Finished("analyze_batch_frames",
                   [filename |-> filename, frame_indices |-> frame_indices],
                   analyze_batch_frames(Ctx(open_handles), uploads, filename,
                                        frame_indices))
    /\ UNCHANGED <<rvars, vid, video_path, uploads, picker, last_saved>>

ReadFrame ==
    /\ DesktopIdle
    /\ \E frame_idx \in FrameIndices :
          Finished("read_frame", [frame_idx |-> frame_idx],
                   read_frame(Ctx(open_handles), DesktopFile, frame_idx))
    /\ UNCHANGED <<rvars, vid, video_path, uploads, picker, last_saved>>

\* The picker has come to `out`: in its loop, returned or raised.
PickerAt(out) ==
    /\ call' = [op |-> "pick_frame_interactive",
                args |-> [path |-> "VIDEO_PATH"],
                status |-> out.status, body |-> out.body, fx |-> NoCallYet.fx]
    /\ open_handles' = out.ctx.open
    /\ picker' = out.picker
    /\ last_saved' = out.saved

\* pick_frame_interactive(VIDEO_PATH) is called and reaches its loop, or raises.
PickerStart ==
    /\ DesktopIdle
    /\ PickerAt(PickerOpen(Ctx(open_handles), DesktopFile, last_saved))
    /\ UNCHANGED <<rvars, vid, video_path, uploads>>

\* The picker shows a frame and handles one key (or, while playing, none).
PickerIterate ==
    /\ picker.pc = "loop"
    /\ \E key \in Keys \cup (IF picker.playing THEN {"timeout"} ELSE {}),
          typed \in Typed :
          /\ key # "g" => typed = [number |-> FALSE, value |-> 0]
          /\ PickerAt(PickerLoop(Ctx(open_handles), picker, key, typed,
                                 last_saved))
    /\ UNCHANGED <<rvars, vid, video_path, uploads>>

\* main() goes on with the frame index the picker returned.
MainAfterPick ==
    /\ picker.pc = "idle"
    /\ call.op = "pick_frame_interactive"
    /\ call.status = "returned"
    /\ Finished("main", [frame_index |-> call.body.frame],
                main_after_pick(Ctx(open_handles), DesktopFile, call.body.frame))
    /\ UNCHANGED <<rvars, vid, video_path, uploads, picker, last_saved>>

Next ==
    \/ UploadVideo
    \/ GetFrame
    \/ AnalyzeFrameEndpoint
    \/ AnalyzeBatchFrames
    \/ ReadFrame
    \/ PickerStart
    \/ PickerIterate
    \/ MainAfterPick

Spec == Init /\ [][Next]_vars

----------------------------------------------------------------------------
(* Properties of the renderer, checked under SpecRender *)

Rendered == ret.fn # "none" /\ "annotated" \in ret.has
Drawn == heap[ret.annotated].ops
Lms == pose_result.landmark

\* The drawing calls of one kind made for entry k of its table.
DrawCalls(kind, k) ==
    { j \in 1..Len(Drawn) : Drawn[j].kind = kind /\ Drawn[j].tag = k }

AboveHalf(v) == 2 * v > Den

\* C1: in every renderer (backend, desktop function, main), a bone of the
\* Bone Set is drawn, once, if and only if both of its end landmarks have
\* visibility strictly above 0.5, and a joint of the Joint Set is drawn, once,
\* if and only if its visibility is strictly above 0.5; nothing else is drawn,
\* and a skipped bone or joint still lets the call return.
C1_DrawnIffVisible ==
    (ret.fn # "none" /\ pose_result.found) =>
        /\ Rendered
        /\ \A k \in 1..Len(SIMPLE_CONNECTIONS) :
              Cardinality(DrawCalls("line", k)) =
                  IF /\ AboveHalf(Lms[SIMPLE_CONNECTIONS[k][1]].visibility)
                     /\ AboveHalf(Lms[SIMPLE_CONNECTIONS[k][2]].visibility)
                  THEN 1 ELSE 0
        /\ \A k \in 1..Len(KEY_LANDMARKS) :
              Cardinality(DrawCalls("circle", k)) =
                  IF AboveHalf(Lms[KEY_LANDMARKS[k]].visibility) THEN 1 ELSE 0
        /\ \A j \in 1..Len(Drawn) :
              \/ Drawn[j].kind = "line" /\ Drawn[j].tag \in 1..Len(SIMPLE_CONNECTIONS)
              \/ Drawn[j].kind = "circle" /\ Drawn[j].tag \in 1..Len(KEY_LANDMARKS)

\* C1's case: the desktop renderer has returned for a list in which one end
\* of a bone sits at exactly 0.5 and the other at 1.0, so that bone and one
\* joint are skipped while another joint is drawn.
C1_Witness ==
    /\ ret.fn = "analyze_and_annotate_frame"
    /\ pose_result.found
    /\ \E k \in 1..Len(SIMPLE_CONNECTIONS) :
          /\ 2 * Lms[SIMPLE_CONNECTIONS[k][1]].visibility = Den
          /\ Lms[SIMPLE_CONNECTIONS[k][2]].visibility = Den
          /\ DrawCalls("line", k) = {}
    /\ \E j \in 1..Len(Drawn) : Drawn[j].kind = "circle"
    /\ \E j \in 1..Len(Drawn) : Drawn[j].kind = "line"

\* C2: whenever the pose model returns landmarks, the keypoint list (the
\* backend renderer's, and the array main() builds) has one entry per
\* landmark of the full enumeration, in enumeration order, each with the
\* landmark's raw visibility and its x and y scaled by the frame's width and
\* height, whatever was drawn; and pose_found is true.
C2_KeypointsCoverEveryLandmark ==
    (ret.fn \in {"analyze_frame", "main"} /\ pose_result.found) =>
        /\ "keypoints" \in ret.has
        /\ ret.pose_found
        /\ Len(ret.keypoints) = NumLandmarks
        /\ \A i \in 0..(NumLandmarks - 1) :
              /\ ret.keypoints[i + 1].visibility = Lms[i].visibility
              /\ ret.keypoints[i + 1].x = Lms[i].x * heap[frame].w
              /\ ret.keypoints[i + 1].y = Lms[i].y * heap[frame].h

\* C2's case: the backend renderer has returned a full keypoint list for a
\* list in which every visibility is 0.0, so nothing was drawn.
C2_Witness ==
    /\ ret.fn = "analyze_frame"
    /\ pose_result.found
    /\ \A i \in 0..(NumLandmarks - 1) : Lms[i].visibility = 0
    /\ Drawn = <<>>
    /\ Len(ret.keypoints) = NumLandmarks

\* C3: when the pose model reports no landmarks, the backend renderer and
\* the desktop renderer return pose_found = false and an annotated frame
\* whose pixels equal the input frame's, with nothing drawn; the backend
\* renderer's keypoint list is empty (the desktop function returns no list).
C3_NoLandmarksNoDrawing ==
    (ret.fn \in {"analyze_frame", "analyze_and_annotate_frame"}
        /\ ~pose_result.found) =>
        /\ {"annotated", "pose_found"} \subseteq ret.has
        /\ ret.pose_found = FALSE
        /\ heap[ret.annotated] = heap[frame]
        /\ Drawn = <<>>
        /\ ret.fn = "analyze_frame" =>
              "keypoints" \in ret.has /\ ret.keypoints = <<>>

\* C3's case: the backend renderer has returned for the "no landmarks" signal.
C3_Witness ==
    /\ ret.fn = "analyze_frame"
    /\ ~pose_result.found
    /\ ret.pose_found = FALSE

\* The points of a drawing call with the landmarks they were computed from.
PointsOf(op) ==
    IF op.kind = "line"
    THEN { <<op.start, Lms[SIMPLE_CONNECTIONS[op.tag][1]]>>,
           <<op.end, Lms[SIMPLE_CONNECTIONS[op.tag][2]]>> }
    ELSE { <<op.center, Lms[KEY_LANDMARKS[op.tag]]>> }

DrawnPoints == UNION { PointsOf(Drawn[j]) : j \in 1..Len(Drawn) }

\* p is v / Den truncated toward zero: the integer of the same sign at most
\* v / Den in magnitude and less than one away from it.
TruncatedTo(p, v) ==
    LET a == IF v >= 0 THEN v ELSE -v
        q == IF v >= 0 THEN p ELSE -p
    IN  q >= 0 /\ q * Den <= a /\ a < (q + 1) * Den

\* C4 as stated: every drawn point is (round(x * W), round(y * H)).
C4_Original ==
    (Rendered /\ pose_result.found) =>
        \A pl \in DrawnPoints :
            /\ pl[1][1] = PyRound(pl[2].x * heap[frame].w)
            /\ pl[1][2] = PyRound(pl[2].y * heap[frame].h)

\* C4, amended: every drawn point is (int(x * W), int(y * H)), the products
\* truncated toward zero; a landmark at (0.5, 0.5) is drawn at
\* (W div 2, H div 2).
C4_TruncatedPixels ==
    (Rendered /\ pose_result.found) =>
        \A pl \in DrawnPoints :
            /\ TruncatedTo(pl[1][1], pl[2].x * heap[frame].w)
            /\ TruncatedTo(pl[1][2], pl[2].y * heap[frame].h)
            /\ (2 * pl[2].x = Den /\ 2 * pl[2].y = Den) =>
                  pl[1] = <<heap[frame].w \div 2, heap[frame].h \div 2>>

\* C4's case: a landmark at (0.5, 0.5) is drawn on a frame of odd width and
\* height, where truncation and rounding differ, and a landmark left of the
\* frame is drawn too.
C4_Witness ==
    /\ Rendered
    /\ pose_result.found
    /\ heap[frame].w = 3 /\ heap[frame].h = 3
    /\ \E pl \in DrawnPoints :
          2 * pl[2].x = Den /\ 2 * pl[2].y = Den /\ pl[1] = <<1, 1>>
    /\ \E pl \in DrawnPoints : pl[2].x < 0

\* C10: a renderer call leaves the caller's frame, and every buffer that
\* existed before the call, as it was; what it draws lands in a buffer
\* created by the call, of the input's size and base image, which it returns.
C10_InputFrameUntouched ==
    [][ret' # ret =>
          /\ \A id \in DOMAIN heap : id \in DOMAIN heap' /\ heap'[id] = heap[id]
          /\ "annotated" \in ret'.has =>
                /\ ret'.annotated \in DOMAIN heap' \ DOMAIN heap
                /\ heap'[ret'.annotated].base = heap[frame].base
                /\ heap'[ret'.annotated].w = heap[frame].w
                /\ heap'[ret'.annotated].h = heap[frame].h]_rvars

\* C10's case: a renderer has drawn, and the drawing is in another buffer
\* than the caller's frame.
C10_Witness ==
    /\ Rendered
    /\ Drawn # <<>>
    /\ ret.annotated # frame
    /\ heap[frame].ops = <<>>

----------------------------------------------------------------------------
(* Properties of the endpoints and the desktop functions, checked under Spec *)

BackendCalls ==
    {"upload_video", "get_frame", "analyze_frame_endpoint",
     "analyze_batch_frames"}

\* The uploaded file a finished backend call was about.
TargetFile == FileAt(uploads, secure_filename(call.args.filename))

\* C5: for an existing uploaded video, an analyze-batch request with more
\* than 50 frame indices is answered 400 with no VideoCapture or Pose made and
\* no frame read or analyzed, and one with exactly 50 is accepted (answered
\* 200).
C5_BatchLimit ==
    (call.op = "analyze_batch_frames" /\ TargetFile.exists) =>
        /\ Len(call.args.frame_indices) > 50 =>
              /\ call.status = "400"
              /\ call.fx = [caps |-> 0, poses |-> 0, reads |-> 0, infers |-> 0]
        /\ Len(call.args.frame_indices) = 50 => call.status = "200"

\* C5's case: 51 indices were requested of an uploaded video with frames and
\* the request was refused.
C5_Witness ==
    /\ call.op = "analyze_batch_frames"
    /\ TargetFile.openable /\ TargetFile.frames > 0
    /\ Len(call.args.frame_indices) = 51
    /\ call.status = "400"

\* Whether frame i of the target file can be read.
InStream(i) == TargetFile.openable /\ 0 <= i /\ i < TargetFile.frames

\* The positions of a request's list whose frames can be read.
ReadablePositions ==
    { k \in 1..Len(call.args.frame_indices) : InStream(call.args.frame_indices[k]) }

\* C6: an accepted analyze-batch request is answered 200 with one result per
\* requested index that can be read, in request order, each carrying the
\* requested index; indices beyond the stream contribute nothing and do not
\* end the batch.
C6_BatchSkipsUnreadable ==
    (call.op = "analyze_batch_frames" /\ TargetFile.exists
        /\ Len(call.args.frame_indices) <= 50) =>
        /\ call.status = "200"
        /\ Len(call.body.results) = Cardinality(ReadablePositions)
        /\ \A j \in 1..Len(call.body.results) :
              \E k \in ReadablePositions :
                  /\ Cardinality({ m \in ReadablePositions : m <= k }) = j
                  /\ call.body.results[j].frame_index =
                         call.args.frame_indices[k]

\* C6's case: a batch whose first index is beyond the stream and whose second
\* can be read was answered with the second frame's result.
C6_Witness ==
    /\ call.op = "analyze_batch_frames"
    /\ call.status = "200"
    /\ Len(call.args.frame_indices) = 2
    /\ ~InStream(call.args.frame_indices[1])
    /\ InStream(call.args.frame_indices[2])
    /\ Len(call.body.results) = 1

\* C7: a call on a video that cannot be opened fails: read_frame and
\* pick_frame_interactive raise, and a backend endpoint that needed the video
\* answers 404 or 400, never 200.
C7_UnopenableVideoFails ==
    /\ (call.op \in {"read_frame", "pick_frame_interactive"}
            /\ ~DesktopFile.openable) => call.status = "raised"
    /\ (call.op \in BackendCalls \ {"upload_video"} /\ ~TargetFile.openable) =>
            call.status \in {"404", "400"}
    /\ (call.op = "upload_video" /\ call.fx.caps > 0 /\ ~TargetFile.openable) =>
            call.status \in {"404", "400"}

\* The frame index a finished single-frame call asked for.
AskedIndex ==
    IF call.op = "get_frame" THEN call.args.frame_index
    ELSE IF call.op = "analyze_frame_endpoint"
    THEN (IF call.args.data.has_index THEN call.args.data.frame_index ELSE 0)
    ELSE call.args.frame_idx

\* C8: a single-frame request for an index beyond the end of the stream is
\* "frame not found": get_frame and the analyze endpoint answer 404 with an
\* error and no image or keypoints, the analyze endpoint without making a
\* pose model or running it, and read_frame raises.
C8_BeyondEndNotFound ==
    /\ (call.op \in {"get_frame", "analyze_frame_endpoint"}
            /\ TargetFile.openable /\ AskedIndex >= TargetFile.frames) =>
            /\ call.status = "404"
            /\ call.body = [error |-> "Frame not found"]
            /\ call.fx.poses = 0 /\ call.fx.infers = 0
    /\ (call.op = "read_frame" /\ DesktopFile.openable
            /\ AskedIndex >= DesktopFile.frames) =>
            /\ call.status = "raised"
            /\ call.body = [error |-> "Could not grab frame"]

\* C8's case: the analyze endpoint was asked for the first index after the
\* last frame of an uploaded video.
C8_Witness ==
    /\ call.op = "analyze_frame_endpoint"
    /\ TargetFile.openable /\ TargetFile.frames > 0
    /\ AskedIndex = TargetFile.frames
    /\ call.status = "404"

\* C9: when no call is in progress, every video handle and pose-model handle
\* the calls opened has been released, however the calls ended.
C9_HandlesReleased ==
    picker.pc = "idle" => open_handles = NoHandles

\* The picker's loop reaches cv2.imshow on its current frame: the frame was
\* read and the info text and the indicator bar were computed.
FrameShown(pk) ==
    /\ pk.pc = "loop"
    /\ CanRead(cap_set_pos(pk.cap, pk.current_frame))
    /\ pk.fps # 0
    /\ pk.total_frames # 0

\* The step the picker takes when 'a' is pressed.
PressA ==
    /\ picker.pc = "loop"
    /\ PickerAt(PickerLoop(Ctx(open_handles), picker, "a",
                           [number |-> FALSE, value |-> 0], last_saved))

\* The pose model finds a person on the picker's current frame.
PoseOnCurrentFrame == pose_process(picker.cap.file, picker.current_frame).found

\* The file is frame_NNNNN.jpg, NNNNN the five-digit decimal form of n.
NamedAfter(file, n) ==
    /\ file.prefix = "frame_"
    /\ file.suffix = ".jpg"
    /\ Len(file.digits) = 5
    /\ \A i \in 1..5 : file.digits[i] \in 0..9
    /\ n = 10000 * file.digits[1] + 1000 * file.digits[2]
              + 100 * file.digits[3] + 10 * file.digits[4] + file.digits[5]

C12_FrameIndexInRange ==
    /\ (picker.pc = "loop" /\ picker.total_frames >= 1) =>
            picker.current_frame \in 0..(picker.total_frames - 1)
    /\ (call.op = "pick_frame_interactive" /\ call.status = "returned"
            /\ DesktopFile.frames >= 1) =>
            call.body.frame \in 0..(DesktopFile.frames - 1)

\* C12's case: the picker was taken to the last frame of the long video and
\* returned it.
C12_Witness ==
    /\ call.op = "pick_frame_interactive"
    /\ call.status = "returned"
    /\ DesktopFile.frames = LongVideo
    /\ call.body.frame = LongVideo - 1

====
